---- MODULE Spec2Model ----
(***************************************************************************)
(* Model of SpinCameras/CamEventHandler.py: the CamImageEventHandler class *)
(* (constructor, OnImageEvent, get_image_count, configure_image_events,    *)
(* reset_image_events).  The vendor SDK (PySpin) and the consumer callback *)
(* are the environment: every SDK call and the consumer may return or      *)
(* raise, which the actions take as inputs.                                *)
(***************************************************************************)
EXTENDS Integers, Sequences, FiniteSets, TLC

\* ------------------------------------------------------------- bounds
MaxFrames == 2        \* image notifications that may be delivered
MaxCounter == 12      \* largest counter value formatted under SpecFmt

\* -------------------------------------------------------- environment
Cams == {"camA", "camB", "camC"}
Callbacks == {"save", "show"}
Threads == {1, 2}
\* The application's handler instances, numbered in order of construction.
HandlerIds == {1, 2}
NoHandler == [exists |-> FALSE]

\* The DeviceSerialNumber node of each camera's TL device nodemap:
\* camA has a readable serial, camB a readable but empty one, camC's
\* node is not readable.
SerialReadable(cam) == cam # "camC"
SerialValue(cam) == IF cam = "camA" THEN <<"2", "1">> ELSE <<>>
PixelFormat(cam) == IF cam = "camB" THEN "Mono8" ELSE "BGR8"

\* datetime.now() answers: instants one microsecond apart.
Datetime(us) ==
  [year |-> 2024, month |-> 1, day |-> 9, hour |-> 8, minute |-> 5,
   second |-> 3, microsecond |-> us]
Datetimes == {Datetime(us) : us \in {42, 43}}

\* ------------------------------------------------------- pure helpers
Digit(d) == <<"0", "1", "2", "3", "4", "5", "6", "7", "8", "9">>[d + 1]

RECURSIVE Dec(_)
\* str(n) of a non-negative int, as used by the f-string
Dec(n) == IF n < 10 THEN <<Digit(n)>> ELSE Dec(n \div 10) \o <<Digit(n % 10)>>

RECURSIVE Pad(_, _)
\* zero-padded decimal of width w (strftime's %Y %m %d %H %M %S %f)
Pad(n, w) == IF w = 0 THEN <<>> ELSE Pad(n \div 10, w - 1) \o <<Digit(n % 10)>>

\* datetime.strftime("%Y-%m-%dT%H:%M:%S:%f")
Strftime(dt) ==
  Pad(dt.year, 4) \o <<"-">> \o Pad(dt.month, 2) \o <<"-">> \o Pad(dt.day, 2)
    \o <<"T">> \o Pad(dt.hour, 2) \o <<":">> \o Pad(dt.minute, 2) \o <<":">>
    \o Pad(dt.second, 2) \o <<":">> \o Pad(dt.microsecond, 6)

CamPrefix == <<"c", "a", "m", "-">>
ImgPrefix == <<"i", "m", "g", "-">>
JpgSuffix == <<".", "j", "p", "g">>

\* The name without the counter: a formatting slip that drops {self._image_count}.
FilenameNoCounter(serial, count, dt) ==
  IF serial # <<>>
    THEN CamPrefix \o serial \o <<"_">> \o ImgPrefix \o <<"_">> \o dt \o JpgSuffix
    ELSE ImgPrefix \o <<"_">> \o dt \o JpgSuffix

\* The two f-strings of OnImageEvent; serial is truthy iff non-empty.
Filename(serial, count, dt) ==
  IF serial # <<>>
    THEN CamPrefix \o serial \o <<"_">> \o ImgPrefix \o Dec(count) \o <<"_">>
           \o dt \o JpgSuffix
    ELSE ImgPrefix \o Dec(count) \o <<"_">> \o dt \o JpgSuffix

\* self._processor.Convert(image, self.pix_for)
Convert(image, pix_for) == [raw |-> FALSE, of |-> image.id, fmt |-> pix_for]

\* -------------------------------------------------------------- state
VARIABLES
  handler,     \* handler id -> the instance's fields, or NoHandler
  registered,  \* camera -> handlers registered with its event dispatch
  thread,      \* delivery context -> position inside OnImageEvent
  calls,       \* consumer invocations so far: <<[h, image, filename, count]>>
  delivered,   \* handler -> complete frames delivered to it
  dropped,     \* handler -> incomplete frames delivered to it
  processed,   \* handler -> frames whose conversion and consumer returned
  escaped,     \* handler -> exceptions that ever escaped its OnImageEvent
  overlapped,  \* handler -> two of its notifications were ever in flight at once
  ret,         \* what the last configure/reset_image_events call returned
  fmtIn,       \* inputs of the filename formatting (SpecFmt)
  fmtOut       \* the two filenames formatted from fmtIn

hist == <<delivered, dropped, processed, escaped, overlapped>>
fmt == <<fmtIn, fmtOut>>
vars == <<handler, registered, thread, calls, hist, ret, fmt>>

Exists(h) == h \in HandlerIds /\ handler[h].exists
Existing == {h \in HandlerIds : handler[h].exists}
\* ids are handed out in order of construction
NextId == Cardinality(Existing) + 1

RECURSIVE Total(_, _)
Total(f, S) ==
  IF S = {} THEN 0 ELSE LET x == CHOOSE y \in S : TRUE IN f[x] + Total(f, S \ {x})
\* notifications delivered so far
Frames == Total(delivered, HandlerIds) + Total(dropped, HandlerIds)

IdleThread == [pc |-> "idle", h |-> 0, named |-> 0, tmp |-> 0]
InFlight(h) == {t \in Threads : thread[t].pc # "idle" /\ thread[t].h = h}
Idle(h) == InFlight(h) = {}

\* What the last call of configure_image_events or reset_image_events did:
\* its boolean result, the instance it returned (configure_image_events; 0 if
\* none), the exception that escaped it ("none" if it returned), whether an
\* SDK call inside it raised SpinnakerException, and (reset_image_events)
\* whether the handler was registered with the camera when it was called.
Outcome(op, h, result, exc, sdkRaised, wasRegistered) ==
  [op |-> op, h |-> h, result |-> result, exc |-> exc, sdkRaised |-> sdkRaised,
   wasRegistered |-> wasRegistered]

\* The SDK's Convert or the consumer ever raised inside h's OnImageEvent.
ExtRaised(h) == escaped[h] \cap {"SpinnakerException", "ConsumerError"} # {}

\* __init__: the fields of a constructed instance.  _device_serial_number is
\* assigned only when the node is readable; otherwise the attribute is unbound.
\* parent records the receiver of the configure_image_events call that
\* constructed the instance (0: constructed by the application).
NewHandler(cam, callback, parent) ==
  [exists |-> TRUE, parent |-> parent, callback |-> callback,
   pix_for |-> PixelFormat(cam),
   serial |-> [bound |-> SerialReadable(cam), value |-> SerialValue(cam)],
   image_count |-> 0]

NoFmt == [serial |-> <<>>, c1 |-> 0, c2 |-> 0, dt1 |-> Datetime(42),
          dt2 |-> Datetime(42)]

Init ==
  /\ handler = [h \in HandlerIds |-> NoHandler]
  /\ registered = [c \in Cams |-> {}]
  /\ thread = [t \in Threads |-> IdleThread]
  /\ calls = <<>>
  /\ delivered = [h \in HandlerIds |-> 0]
  /\ dropped = [h \in HandlerIds |-> 0]
  /\ processed = [h \in HandlerIds |-> 0]
  /\ escaped = [h \in HandlerIds |-> {}]
  /\ overlapped = [h \in HandlerIds |-> FALSE]
  /\ ret = Outcome("none", 0, FALSE, "none", FALSE, FALSE)
  /\ fmtIn = NoFmt
  /\ fmtOut = <<>>

\* --------------------------------------------------------- operations
\* CamImageEventHandler(cam, callback) called by the application.  If an SDK
\* call of __init__ raises, no instance comes to exist.
Construct(cam, callback, sdkRaises) ==
  /\ NextId \in HandlerIds
  /\ handler' = IF sdkRaises THEN handler
                ELSE [handler EXCEPT ![NextId] = NewHandler(cam, callback, 0)]
  /\ UNCHANGED <<registered, thread, calls, hist, ret, fmt>>

\* get_image_count's return value
CountOf(h) == handler[h].image_count

\* self.get_image_count(): a read; no field changes
get_image_count(h) ==
  /\ Exists(h)
  /\ CountOf(h) \in Nat
  /\ UNCHANGED vars

\* configure_image_events registering self instead of the new instance.
RegisterSelf(self, new) == self

\* The instance handed to cam.RegisterEventHandler
RegisterTarget(self, new) == new

\* self.configure_image_events(cam)
configure_image_events(self, cam, ctorRaises, regRaises) ==
  /\ Exists(self)
  /\ IF ctorRaises
       THEN \* the except branch sets result = False; the return then reads the
            \* never-assigned local image_event_handler
            /\ ret' = Outcome("configure_image_events", 0, FALSE,
                              "UnboundLocalError", TRUE, FALSE)
            /\ UNCHANGED <<handler, registered>>
       ELSE /\ NextId \in HandlerIds
            /\ handler' = [handler EXCEPT
                 ![NextId] = NewHandler(cam, handler[self].callback, self)]
            /\ IF regRaises
                 THEN /\ UNCHANGED registered
                      /\ ret' = Outcome("configure_image_events", NextId,
                                        FALSE, "none", TRUE, FALSE)
                 ELSE /\ registered' = [registered EXCEPT
                           ![cam] = @ \cup {RegisterTarget(self, NextId)}]
                      /\ ret' = Outcome("configure_image_events", NextId,
                                        TRUE, "none", FALSE, FALSE)
  /\ UNCHANGED <<thread, calls, hist, fmt>>

\* reset_image_events that forgets result = False in the except branch.
ResetResultAlwaysTrue(raised) == TRUE

\* reset_image_events' result: True, set to False in the except branch
ResetResult(raised) == ~raised

\* self.reset_image_events(cam, image_event_handler); self is not used by the
\* method.  Whether UnregisterEventHandler raises is the SDK's answer;
\* unregistering a handler that is not registered is left to the vendor
\* contract, so either answer is possible there too.
reset_image_events(cam, h, unregRaises) ==
  /\ Exists(h)
  /\ registered' = IF unregRaises THEN registered
                   ELSE [registered EXCEPT ![cam] = @ \ {h}]
  /\ ret' = Outcome("reset_image_events", 0, ResetResult(unregRaises),
                    "none", unregRaises, h \in registered[cam])
  /\ UNCHANGED <<handler, thread, calls, hist, fmt>>

\* A delivered frame: its identity and what IsIncomplete() answers.
Image(id, incomplete) == [raw |-> TRUE, id |-> id, incomplete |-> incomplete]

\* The wall clock read by datetime.now(): it advances with every notification.
Now == Datetime(42 + Frames)

\* The increment lost: the counter written back unchanged.
NoIncrement(tmp) == tmp

\* The increment applied twice.
IncrementedTwice(tmp) == tmp + 2

\* self._image_count += 1: the value stored from the value loaded
Incremented(tmp) == tmp + 1

\* The else branch of `if image.IsIncomplete()`
IsProcessed(image) == ~image.incomplete

\* OnImageEvent(image) up to the call of the consumer, invoked on handler h by
\* a camera's event dispatch or by the application itself.  serialized: one
\* notification at a time is delivered to a handler.
OnImageEvent(t, h, incomplete, convRaises, serialized) ==
  /\ Frames < MaxFrames
  /\ Exists(h)
  /\ thread[t].pc = "idle"
  /\ \A u \in Threads : u < t => thread[u].pc # "idle"
  /\ serialized => Idle(h)
  /\ UNCHANGED <<handler, registered, processed, ret, fmt>>
  /\ LET image == Image(Frames + 1, incomplete) IN
     /\ delivered' = [delivered EXCEPT ![h] = IF incomplete THEN @ ELSE @ + 1]
     /\ dropped' = [dropped EXCEPT ![h] = IF incomplete THEN @ + 1 ELSE @]
     /\ IF ~IsProcessed(image)
          THEN \* reported and dropped
               /\ UNCHANGED <<thread, calls, escaped, overlapped>>
          ELSE IF convRaises
            THEN \* Convert raised: the exception leaves OnImageEvent
                 /\ escaped' = [escaped EXCEPT
                      ![h] = @ \cup {"SpinnakerException"}]
                 /\ UNCHANGED <<thread, calls, overlapped>>
            ELSE IF ~handler[h].serial.bound
              THEN \* self._device_serial_number was never assigned
                   /\ escaped' = [escaped EXCEPT
                        ![h] = @ \cup {"AttributeError"}]
                   /\ UNCHANGED <<thread, calls, overlapped>>
              ELSE \* the consumer is called and is now running
                   /\ calls' = Append(calls,
                        [h |-> h,
                         image |-> Convert(image, handler[h].pix_for),
                         filename |-> Filename(handler[h].serial.value,
                                               handler[h].image_count,
                                               Strftime(Now)),
                         count |-> handler[h].image_count])
                   /\ thread' = [thread EXCEPT ![t] =
                        [pc |-> "callback", h |-> h,
                         named |-> handler[h].image_count, tmp |-> 0]]
                   /\ overlapped' = [overlapped EXCEPT
                        ![h] = @ \/ InFlight(h) # {}]
                   /\ UNCHANGED escaped

\* The consumer returns; the increment begins by loading self._image_count.
CallbackReturns(t) ==
  /\ thread[t].pc = "callback"
  /\ thread' = [thread EXCEPT ![t].pc = "store",
                              ![t].tmp = handler[thread[t].h].image_count]
  /\ processed' = [processed EXCEPT ![thread[t].h] = @ + 1]
  /\ UNCHANGED <<handler, registered, calls, delivered, dropped, escaped,
                 overlapped, ret, fmt>>

\* The consumer raises; the exception leaves OnImageEvent before the increment.
CallbackRaises(t) ==
  /\ thread[t].pc = "callback"
  /\ thread' = [thread EXCEPT ![t] = IdleThread]
  /\ escaped' = [escaped EXCEPT ![thread[t].h] = @ \cup {"ConsumerError"}]
  /\ UNCHANGED <<handler, registered, calls, delivered, dropped, processed,
                 overlapped, ret, fmt>>

\* The increment's store; OnImageEvent returns.
IncrementStore(t) ==
  /\ thread[t].pc = "store"
  /\ handler' = [handler EXCEPT
       ![thread[t].h].image_count = Incremented(thread[t].tmp)]
  /\ thread' = [thread EXCEPT ![t] = IdleThread]
  /\ UNCHANGED <<registered, calls, hist, ret, fmt>>

\* Filename formatting on its own: format two names from the drawn inputs, as the two
\* f-strings of OnImageEvent would for one device identity.
FormatPair ==
  /\ fmtOut = <<>>
  /\ fmtOut' = <<Filename(fmtIn.serial, fmtIn.c1, Strftime(fmtIn.dt1)),
                 Filename(fmtIn.serial, fmtIn.c2, Strftime(fmtIn.dt2))>>
  /\ UNCHANGED <<handler, registered, thread, calls, hist, ret, fmtIn>>

\* ------------------------------------------------------ specifications
Next ==
  \/ \E cam \in Cams, cb \in Callbacks, r \in BOOLEAN : Construct(cam, cb, r)
  \/ \E h \in HandlerIds : get_image_count(h)
  \/ \E self \in HandlerIds, cam \in Cams, cr \in BOOLEAN, rr \in BOOLEAN :
       configure_image_events(self, cam, cr, rr)
  \/ \E cam \in Cams, h \in HandlerIds, r \in BOOLEAN :
       reset_image_events(cam, h, r)
  \/ \E t \in Threads, h \in HandlerIds, inc \in BOOLEAN, cr \in BOOLEAN :
       OnImageEvent(t, h, inc, cr, TRUE)
  \/ \E t \in Threads : CallbackReturns(t)
  \/ \E t \in Threads : CallbackRaises(t)
  \/ \E t \in Threads : IncrementStore(t)

\* One-at-a-time delivery to each handler (the dispatch the source assumes).
Spec == Init /\ [][Next]_vars

NextConc ==
  \/ \E cam \in Cams, cb \in Callbacks, r \in BOOLEAN : Construct(cam, cb, r)
  \/ \E h \in HandlerIds : get_image_count(h)
  \/ \E self \in HandlerIds, cam \in Cams, cr \in BOOLEAN, rr \in BOOLEAN :
       configure_image_events(self, cam, cr, rr)
  \/ \E cam \in Cams, h \in HandlerIds, r \in BOOLEAN :
       reset_image_events(cam, h, r)
  \/ \E t \in Threads, h \in HandlerIds, inc \in BOOLEAN, cr \in BOOLEAN :
       OnImageEvent(t, h, inc, cr, FALSE)
  \/ \E t \in Threads : CallbackReturns(t)
  \/ \E t \in Threads : CallbackRaises(t)
  \/ \E t \in Threads : IncrementStore(t)

\* Notifications of one handler may interleave (no synchronization in the class).
SpecConc == Init /\ [][NextConc]_vars

\* Device identities SpecFmt formats: empty, and two serials.
FmtSerials == {<<>>, <<"2", "1">>, <<"7">>}

InitFmt ==
  /\ handler = [h \in HandlerIds |-> NoHandler]
  /\ registered = [c \in Cams |-> {}]
  /\ thread = [t \in Threads |-> IdleThread]
  /\ calls = <<>>
  /\ delivered = [h \in HandlerIds |-> 0]
  /\ dropped = [h \in HandlerIds |-> 0]
  /\ processed = [h \in HandlerIds |-> 0]
  /\ escaped = [h \in HandlerIds |-> {}]
  /\ overlapped = [h \in HandlerIds |-> FALSE]
  /\ ret = Outcome("none", 0, FALSE, "none", FALSE, FALSE)
  /\ fmtIn \in [serial : FmtSerials, c1 : 0..MaxCounter, c2 : 0..MaxCounter,
                 dt1 : Datetimes, dt2 : Datetimes]
  /\ fmtOut = <<>>

NextFmt == FormatPair

\* The filename formatting applied to every pair of counters and timestamps.
SpecFmt == InitFmt /\ [][NextFmt]_vars

\* ------------------------------------------------------------- claims
\* The consumer invocations made by handler h, in order.
CallsOf(h) == SelectSeq(calls, LAMBDA c : c.h = h)
\* Notifications of h that have loaded the counter and not yet stored it.
Storing(h) == {t \in Threads : thread[t].pc = "store" /\ thread[t].h = h}
\* name is what OnImageEvent formats for h from counter value k at some instant.
NamedBy(h, k, name) ==
  \E us \in 42..(42 + MaxFrames) :
    name = Filename(handler[h].serial.value, k, Strftime(Datetime(us)))
\* p is a prefix of s.
IsPrefix(p, s) == Len(p) <= Len(s) /\ SubSeq(s, 1, Len(p)) = p
\* s occurs in name as a contiguous segment.
HasSegment(name, s) ==
  \E i \in 1..Len(name) :
    i + Len(s) - 1 <= Len(name) /\ SubSeq(name, i, i + Len(s) - 1) = s

\* C1: after N complete frames delivered one at a time to a fresh handler (the
\* SDK's Convert and the consumer not raising), get_image_count() returns N and
\* the consumer received names carrying the counters 0, 1, ..., N-1 in order.
C1_CountAndNamesFollowFrames ==
  \A h \in Existing :
    (Idle(h) /\ ~ExtRaised(h) /\ dropped[h] = 0) =>
      /\ CountOf(h) = delivered[h]
      /\ Len(CallsOf(h)) = delivered[h]
      /\ \A i \in 1..Len(CallsOf(h)) :
           /\ CallsOf(h)[i].count = i - 1
           /\ NamedBy(h, i - 1, CallsOf(h)[i].filename)

\* C1 restricted to handlers whose _device_serial_number was assigned.
C1_HoldsWhenSerialBound ==
  \A h \in Existing :
    (handler[h].serial.bound /\ Idle(h) /\ ~ExtRaised(h) /\ dropped[h] = 0) =>
      /\ CountOf(h) = delivered[h]
      /\ Len(CallsOf(h)) = delivered[h]
      /\ \A i \in 1..Len(CallsOf(h)) :
           /\ CallsOf(h)[i].count = i - 1
           /\ NamedBy(h, i - 1, CallsOf(h)[i].filename)

\* C2: incomplete frames reach neither the converter nor the consumer and leave
\* the counter alone, so after any mix of complete and incomplete frames (none
\* of whose processing raised in the SDK or the consumer) the counter and the
\* number of consumer invocations equal the number of complete frames.
C2_CountEqualsCompleteFrames ==
  \A h \in Existing :
    (Idle(h) /\ ~ExtRaised(h) /\ dropped[h] > 0) =>
      /\ CountOf(h) = delivered[h]
      /\ Len(CallsOf(h)) = delivered[h]

\* C2 restricted to handlers whose _device_serial_number was assigned.
C2_HoldsWhenSerialBound ==
  \A h \in Existing :
    (handler[h].serial.bound /\ Idle(h) /\ ~ExtRaised(h) /\ dropped[h] > 0) =>
      /\ CountOf(h) = delivered[h]
      /\ Len(CallsOf(h)) = delivered[h]

\* The part of C2 about the dropped frame itself: a notification that only
\* adds to dropped[h] changes no field, invokes no consumer, starts no
\* conversion and lets no exception escape.
C2_IncompleteFrameIsDropped ==
  [][\A h \in HandlerIds :
       dropped'[h] # dropped[h] =>
         /\ dropped'[h] = dropped[h] + 1
         /\ UNCHANGED <<handler, registered, thread, calls, delivered,
                        processed, escaped>>]_vars

\* C3: a handler built while DeviceSerialNumber was unreadable handles every
\* complete frame without raising and hands the consumer a name of the form
\* img-<counter>_<timestamp>.jpg with no cam-<serial> segment.
C3_AbsentIdentityUsesFallbackName ==
  \A h \in Existing :
    ~handler[h].serial.bound =>
      /\ "AttributeError" \notin escaped[h]
      /\ (Idle(h) /\ ~ExtRaised(h)) => Len(CallsOf(h)) = delivered[h]
      /\ \A i \in 1..Len(CallsOf(h)) :
           /\ IsPrefix(ImgPrefix, CallsOf(h)[i].filename)
           /\ ~HasSegment(CallsOf(h)[i].filename, CamPrefix)

\* C3 for a serial that is readable but empty: the fallback name is used.
C3_EmptySerialUsesFallbackName ==
  \A h \in Existing :
    (handler[h].serial.bound /\ handler[h].serial.value = <<>>) =>
      /\ escaped[h] \subseteq {"SpinnakerException", "ConsumerError"}
      /\ (Idle(h) /\ ~ExtRaised(h)) => Len(CallsOf(h)) = delivered[h]
      /\ \A i \in 1..Len(CallsOf(h)) :
           /\ IsPrefix(ImgPrefix, CallsOf(h)[i].filename)
           /\ ~HasSegment(CallsOf(h)[i].filename, CamPrefix)

\* C4: configure_image_events lets no exception escape; it returns
\* (False, instance) whenever an SDK call inside it raised and
\* (True, instance) otherwise.
C4_ConfigureReturnsBooleanAndInstance ==
  ret.op = "configure_image_events" =>
    /\ ret.exc = "none"
    /\ Exists(ret.h)
    /\ ret.result = ~ret.sdkRaised

\* C4 restricted to calls in which the constructor did not raise.
C4_HoldsWhenConstructorSucceeds ==
  (ret.op = "configure_image_events" /\ ret.h # 0) =>
    /\ ret.exc = "none"
    /\ Exists(ret.h)
    /\ ret.result = ~ret.sdkRaised

\* C5: reset_image_events lets no exception escape and returns True exactly
\* when UnregisterEventHandler did not raise; called for a handler registered
\* with that camera, it returns True (the SDK call completing) and leaves the
\* handler unregistered.
C5_ResetReturnsWhetherSdkCompleted ==
  ret.op = "reset_image_events" =>
    /\ ret.exc = "none"
    /\ ret.result = ~ret.sdkRaised
    /\ (ret.wasRegistered /\ ~ret.sdkRaised) => ret.result

C5_Witness ==
  /\ ret.op = "reset_image_events"
  /\ ret.wasRegistered
  /\ ret.result
  /\ \E h \in Existing : handler[h].parent # 0 /\ \A c \in Cams : h \notin registered[c]

\* C6: in every step the counter of every handler stays a natural number that
\* does not decrease, and it equals the number of frames whose conversion and
\* consumer call returned, less those whose increment is under way; it is 0
\* for a new instance; get_image_count() returns it.
C6_CountIsProcessedAndMonotone ==
  [][/\ \A h \in HandlerIds : Exists(h) => CountOf(h)' >= CountOf(h)
     /\ \A h \in HandlerIds :
          handler'[h].exists =>
            /\ CountOf(h)' \in Nat
            /\ CountOf(h)' + Cardinality(Storing(h)') = processed'[h]
            /\ CountOf(h)' = handler'[h].image_count
            /\ ~handler[h].exists => CountOf(h)' = 0]_vars

C6_Witness ==
  \E h \in Existing :
    /\ Idle(h)
    /\ delivered[h] = 2
    /\ dropped[h] = 0
    /\ "ConsumerError" \in escaped[h]
    /\ CountOf(h) = 1

\* C7: for one device identity, names formatted from different counter values
\* differ, whatever the two timestamps.
C7_DifferentCountersDifferentNames ==
  (fmtOut # <<>> /\ fmtIn.c1 # fmtIn.c2) => fmtOut[1] # fmtOut[2]

C7_Witness ==
  /\ fmtOut # <<>>
  /\ fmtIn.c1 = 1
  /\ fmtIn.c2 = 12
  /\ fmtIn.dt1 = fmtIn.dt2
  /\ fmtIn.serial # <<>>
  /\ IsPrefix(CamPrefix, fmtOut[1])

\* C8: every complete frame whose conversion returned reaches the consumer
\* exactly once, as the frame converted to the cached pixel format and under a
\* name built from the current counter; while the consumer runs
\* get_image_count() is the counter in that name; the counter is incremented
\* only after the consumer returned, never when conversion or consumer raised.
C8_ConvertNameCallThenIncrement ==
  /\ \A h \in Existing :
       (Idle(h) /\ "SpinnakerException" \notin escaped[h]) =>
         Len(CallsOf(h)) = delivered[h]
  /\ \A i \in 1..Len(calls) :
       /\ ~calls[i].image.raw
       /\ calls[i].image.fmt = handler[calls[i].h].pix_for
       /\ NamedBy(calls[i].h, calls[i].count, calls[i].filename)
  /\ \A t \in Threads :
       thread[t].pc = "callback" => CountOf(thread[t].h) = thread[t].named
  /\ \A h \in Existing :
       CountOf(h) + Cardinality(Storing(h)) = processed[h]

\* C8 restricted to handlers whose _device_serial_number was assigned.
C8_HoldsWhenSerialBound ==
  /\ \A h \in Existing :
       (handler[h].serial.bound /\ Idle(h)
          /\ "SpinnakerException" \notin escaped[h]) =>
         Len(CallsOf(h)) = delivered[h]
  /\ \A i \in 1..Len(calls) :
       /\ ~calls[i].image.raw
       /\ calls[i].image.fmt = handler[calls[i].h].pix_for
       /\ NamedBy(calls[i].h, calls[i].count, calls[i].filename)
  /\ \A t \in Threads :
       thread[t].pc = "callback" => CountOf(thread[t].h) = thread[t].named
  /\ \A h \in Existing :
       CountOf(h) + Cardinality(Storing(h)) = processed[h]

\* Two consumer invocations of h were handed the same counter value.
SameCounterTwice(h) ==
  \E i, j \in 1..Len(CallsOf(h)) :
    i # j /\ CallsOf(h)[i].count = CallsOf(h)[j].count
\* h is idle and its counter is short of the frames it processed.
LostIncrement(h) == Idle(h) /\ CountOf(h) < processed[h]

\* C9: as long as the notifications of a handler never overlapped (and none
\* was cut short by the SDK or the consumer raising), no two consumer
\* invocations got the same counter and no increment is lost; with two
\* interleaved notifications both outcomes are reachable (the witness).
C9_SerializedDeliveryKeepsCounter ==
  \A h \in Existing :
    (~overlapped[h] /\ ~ExtRaised(h)) =>
      (~SameCounterTwice(h) /\ ~LostIncrement(h))

C9_Witness ==
  \E h \in Existing :
    /\ overlapped[h]
    /\ ~ExtRaised(h)
    /\ SameCounterTwice(h)
    /\ Idle(h)
    /\ processed[h] = 2
    /\ CountOf(h) = 1

\* C10: a step in which configure_image_events constructs an instance makes a
\* new one, distinct from its receiver, with counter 0 and the receiver's
\* consumer, registers at most that new instance and leaves every existing
\* instance as it was; no configure or reset call changes any counter; and a
\* counter changes only by the finishing notification of its own handler.
C10_ConfigureRegistersNewInstance ==
  [][/\ \A new \in HandlerIds :
          (~handler[new].exists /\ handler'[new].exists
             /\ handler'[new].parent # 0) =>
            LET H == handler'[new].parent IN
            /\ H # new
            /\ Exists(H)
            /\ handler'[new].image_count = 0
            /\ handler'[new].callback = handler[H].callback
            /\ \A h \in Existing : handler'[h] = handler[h]
            /\ \A c \in Cams : registered'[c] \ registered[c] \subseteq {new}
            /\ ret'.op = "configure_image_events" /\ ret'.h = new
            /\ ret'.result => \E c \in Cams : new \in registered'[c]
     /\ (registered' # registered \/ ret' # ret) =>
          \A h \in Existing : handler'[h] = handler[h]
     /\ \A h \in Existing :
          CountOf(h)' # CountOf(h) =>
            \E t \in Storing(h) : thread'[t] = IdleThread
                 /\ \A g \in Existing \ {h} : handler'[g] = handler[g]]_vars

C10_Witness ==
  \E H, new \in Existing, c \in Cams :
    /\ handler[new].parent = H
    /\ handler[H].parent = 0
    /\ new \in registered[c]
    /\ CountOf(new) = 2
    /\ CountOf(H) = 0
    /\ ret.op = "reset_image_events"

====
